---- MODULE Spec2Model ----
(***************************************************************************)
(* A model of pygeodesy/sphericalTrigonometry.py (class LatLon and the     *)
(* functions areaOf, intersection, isPoleEnclosedBy, perimeterOf, ...).    *)
(* The last sections model the script test/run.py, which runs the test     *)
(* modules and totals their failures.                                      *)
(*                                                                         *)
(* Numbers.  Python floats are modelled as fixed-point integers: a real x  *)
(* is carried as x * One, and EPS is one unit of that resolution.  Angles  *)
(* in degrees are carried as integer degrees, angles in radians as integer *)
(* multiples of pi/360 (so PI = 360, PI2 = 720, PI_2 = 180 and radians(d)  *)
(* = 2 * d).  The trigonometric tables cover the multiples of 45 degrees;  *)
(* inverse functions return the nearest tabulated angle.  On points whose  *)
(* latitude and longitude are multiples of 90 degrees and bearings that    *)
(* are multiples of 90 degrees every value the code computes is tabulated  *)
(* exactly (all sines and cosines are -1, 0 or 1), so the model computes   *)
(* there what real arithmetic computes.                                    *)
(***************************************************************************)
EXTENDS Integers, Sequences, FiniteSets, TLC

VARIABLES pc,     \* "call": the arguments are chosen, "done": the call returned or raised
          op,     \* the function or method called
          args,   \* its arguments
          out,    \* its outcome: a returned value or a raised exception
          aux     \* what the call did on the way (observed locals)

vars == <<pc, op, args, out, aux>>

----------------------------------------------------------------------------
(* Bounds of the model *)

MaxN == 4          \* most points of a polygon
MaxRadius == 3     \* largest radius, in units of EPS
MaxHeight == 1     \* heights are 0 .. 2 * MaxHeight, in steps of 2
MaxFrameN == 4     \* most points handed to an operation whose effects are observed
MaxThreads == 2    \* most concurrent calls of toVector3d on one point
MaxMade == 3       \* most vectors made for one point in a sequence of calls
MaxModules == 3    \* most test modules given to the test script
MaxStatus == 2     \* largest exit status of a test module
MaxSignal == 2     \* largest number of a signal that ends a test module

----------------------------------------------------------------------------
(* Fixed-point arithmetic *)

Abs(x) == IF x < 0 THEN -x ELSE x
Sgn(x) == IF x > 0 THEN 1 ELSE IF x < 0 THEN -1 ELSE 0
Min2(x, y) == IF x < y THEN x ELSE y
Max2(x, y) == IF x > y THEN x ELSE y

\* sin of 0, 45 and 90 degrees (keyed in units of pi/360), times One
SinQ == [q \in {0, 90, 180} |-> CASE q = 0 -> 0 [] q = 90 -> 707 [] q = 180 -> 1000]
One == SinQ[180]

\* fmath.EPS, the float epsilon: one unit of the fixed-point resolution
EPS == 1
\* utily.PI2, utily.PI_2 in units of pi/360
PI2 == 720
PI_2 == 180
PI == PI2 \div 2

\* x * y and x / y of two fixed-point numbers, rounded half away from zero
Mul(x, y) == Sgn(x * y) * ((Abs(x * y) + One \div 2) \div One)
Div(x, y) == Sgn(x) * Sgn(y) * ((Abs(x) * One + Abs(y) \div 2) \div Abs(y))

\* math.radians, math.degrees
radians(d) == d * 2
degrees(r) == Sgn(r) * (Abs(r) \div 2)

\* math.sin, math.cos, math.tan of an angle that is a multiple of pi/4
sin(r) == LET m == r % PI2
              h == IF m > PI THEN PI2 - m ELSE m
              q == IF h > PI_2 THEN PI - h ELSE h
          IN  (IF m > PI THEN -1 ELSE 1) * SinQ[q]
cos(r) == sin(r + PI_2)
\* tan(pi/2) is a huge float (1.6e16), not an error: a large fixed-point number
TanBig == One * 100
\* ... and at the odd multiples of pi/8 the half-latitude tangents need
TanQ == [q \in {45, 135} |-> CASE q = 45 -> 414 [] q = 135 -> 2414]
tan(r) == LET m == r % PI
          IN  IF m % (PI \div 4) # 0
              THEN (IF m > PI_2 THEN -TanQ[PI - m] ELSE TanQ[m])
              ELSE IF cos(r) = 0 THEN sin(r) * (TanBig \div One)
              ELSE Div(sin(r), cos(r))

\* math.acos, math.asin: the tabulated angle whose cos (sin) is nearest to x
acos(x) == IF 2 * x > One + SinQ[PI \div 4] THEN 0
           ELSE IF 2 * x > SinQ[PI \div 4] THEN PI \div 4
           ELSE IF 2 * x >= -SinQ[PI \div 4] THEN PI_2
           ELSE IF 2 * x >= -SinQ[PI \div 4] - One THEN PI - PI \div 4
           ELSE PI
asin(x) == PI_2 - acos(x)
\* math.atan2: the tabulated direction nearest to (x, y); atan2(0, 0) = 0
atan2(y, x) ==
    LET ax == Abs(x)
        ay == Abs(y)
        d == (ax + ay) * SinQ[PI \div 4]
        q == IF ay = 0 THEN 0
             ELSE IF d < ax * One THEN 0
             ELSE IF d < ay * One THEN PI_2
             ELSE PI \div 4
    IN  IF x >= 0 THEN Sgn(y) * q
        ELSE IF y >= 0 THEN PI - q ELSE q - PI
\* math.copysign(x, y); a float zero y carries a sign of its own, here +
copysign(x, y) == IF y < 0 THEN -Abs(x) ELSE Abs(x)

\* fmath.acos1: acos with the argument clamped to [-1, 1]
acos1(x) == acos(Max2(-One, Min2(One, x)))
\* fmath.favg: the average of two values, a1 + f * (a2 - a1) with f = 0.5
favg(a1, a2) == a1 + Sgn(a2 - a1) * (Abs(a2 - a1) \div 2)

\* utily._wrap: wrap an angle into (wrap - modulo, wrap]
_wrap(angle, wrap, modulo) ==
    IF wrap >= angle /\ angle > wrap - modulo THEN angle
    ELSE IF angle % modulo > wrap THEN (angle % modulo) - modulo
    ELSE angle % modulo
\* utily.wrapPI: wrap radians into (-PI, PI]
wrapPI(r) == _wrap(r, PI, PI2)
\* utily.radiansPI2: degrees to radians, wrapped into (0, PI2]; 0 stays 0
radiansPI2(d) == _wrap(radians(d), PI2, PI2)
\* utily.degrees180: radians to degrees, wrapped into (-180, 180]
degrees180(r) == _wrap(degrees(r), degrees(PI), degrees(PI2))
\* utily.degrees90: radians to degrees, wrapped into (-270, 90]; every
\* latitude it is applied to is an asin or an atan2 against a hypot, which
\* lie in [-PI_2, PI_2] and which it leaves alone
degrees90(r) == _wrap(degrees(r), degrees(PI_2), degrees(PI2))
\* utily.tan_2: the tangent of half the angle
tan_2(r) == tan(r \div 2)
\* utily.unrollPI: the longitude difference b2 - b1, wrapped into (-PI, PI]
\* if wrap is set, and the second longitude unrolled accordingly
unrollPI(b1, b2, wrap) ==
    LET r == b2 - b1
        u == wrapPI(r)
    IN  IF wrap /\ Abs(r) > PI /\ u # r THEN <<u, b1 + u>> ELSE <<r, b2>>

\* formy.haversine_: the angular distance of two points, in [0, PI]
haversine_(a2, a1, db) ==
    acos1(Mul(sin(a1), sin(a2)) + Mul(Mul(cos(a1), cos(a2)), cos(db)))
\* formy.bearing_ (final=False): the initial bearing, in [0, PI2)
bearing_(a1, b1, a2, b2, wrap) ==
    LET db == unrollPI(b1, b2, wrap)[1]
        x == Mul(cos(a1), sin(a2)) - Mul(Mul(sin(a1), cos(a2)), cos(db))
        y == Mul(sin(db), cos(a2))
    IN  (atan2(y, x) + PI2) % PI2

----------------------------------------------------------------------------
(* Points and outcomes *)

None == <<>>

\* a LatLon instance: latitude and longitude in degrees, height, and the
\* cache _v3d of its vector, empty after construction
LatLon(lat, lon, height) ==
    [lat |-> lat, lon |-> lon, height |-> height, _v3d |-> None]
\* LatLonSphericalBase.to2ab: latitude and longitude in radians
to2ab(p) == <<radians(p.lat), radians(p.lon)>>
\* LatLonHeightBase._havg: the average of two heights
_havg(p, q) == favg(p.height, q.height)

Heights == {2 * h : h \in 0 .. MaxHeight}
\* points whose coordinates are multiples of 90 degrees
Lats90 == {-90, 0, 90}
Lons90 == {-180, -90, 0, 90, 180}
Points90 == {LatLon(a, b, h) : a \in Lats90, b \in Lons90, h \in Heights}
Bearings90 == {0, 90, 180, 270}
\* radii in units of EPS: negative, 0, EPS itself and above
Radii == -1 .. MaxRadius

Return(v) == [kind |-> "return", val |-> v, msg |-> ""]
Raise(e, m) == [kind |-> e, val |-> None, msg |-> m]
NoOut == [kind |-> "none", val |-> None, msg |-> ""]

----------------------------------------------------------------------------
(* _destination2 and intersection *)

\* _destination2(a, b, r, t): latitude and longitude, in degrees, of the
\* destination from (a, b) after the angular distance r on the bearing t
_destination2(a, b, r, t) ==
    LET ca == cos(a)  cr == cos(r)  ct == cos(t)
        sa == sin(a)  sr == sin(r)  st == sin(t)
        a3 == asin(Mul(Mul(ct, sr), ca) + Mul(cr, sa))
        d == atan2(Mul(Mul(st, sr), ca), cr - Mul(sa, sin(a3)))
    IN  <<degrees90(a3), degrees180(b + d)>>

\* (a slip: "infinite" as soon as one of the two sines is zero)
turnCheckEither(sx1, sx2) ==
    IF sx1 = 0 \/ sx2 = 0 THEN "infinite"
    ELSE IF Mul(sx1, sx2) < 0 THEN "ambiguous"
    ELSE ""

\* the checks of intersection on the two turn-angle sines, in the code's
\* order: "infinite", "ambiguous" or "" (neither)
turnCheck(sx1, sx2) ==
    IF sx1 = 0 /\ sx2 = 0 THEN "infinite"
    ELSE IF Mul(sx1, sx2) < 0 THEN "ambiguous"
    ELSE ""

\* the triangle-side check of intersection
sideCheck(x1, x2) == Abs(x1) < EPS \/ Abs(x2) < EPS

\* the locals of intersection, up to the coincidence test
intersectionHead(start1, start2, wrap) ==
    LET a1 == to2ab(start1)[1]  b1 == to2ab(start1)[2]
        a2 == to2ab(start2)[1]  b2 == to2ab(start2)[2]
        u == unrollPI(b1, b2, wrap)
    IN  [a1 |-> a1, b1 |-> b1, a2 |-> a2, b2 |-> u[2], db |-> u[1],
         r12 |-> haversine_(a2, a1, u[1])]

\* the coincidence test of intersection
coincident(r12) == Abs(r12) < EPS

\* (a slip: the first start instead of the average)
coincidentPointFirst(l) == <<degrees(l.a1), degrees(l.b1)>>

\* the point of the coincident branch of intersection
coincidentPoint(l) == <<degrees(favg(l.a1, l.a2)), degrees(favg(l.b1, l.b2))>>

\* the bearings t12 from start1 to start2 and t21 from start2 to start1
bearings12(db, t1, t2) == IF sin(db) > 0 THEN <<t1, PI2 - t2>> ELSE <<PI2 - t1, t2>>

\* the locals of the general branch of intersection
intersectionTurns(l, bearing1, bearing2) ==
    LET cr12 == cos(l.r12)  sr12 == sin(l.r12)
        x1 == Mul(sr12, cos(l.a1))
        x2 == Mul(sr12, cos(l.a2))
        par == sideCheck(x1, x2)
        t1 == IF par THEN 0 ELSE acos1(Div(sin(l.a2) - Mul(sin(l.a1), cr12), x1))
        t2 == IF par THEN 0 ELSE acos1(Div(sin(l.a1) - Mul(sin(l.a2), cr12), x2))
        t12 == bearings12(l.db, t1, t2)[1]
        t21 == bearings12(l.db, t1, t2)[2]
        t13 == radiansPI2(bearing1)
        t23 == radiansPI2(bearing2)
        y1 == wrapPI(t13 - t12)
        y2 == wrapPI(t21 - t23)
    IN  [x1 |-> x1, x2 |-> x2, parallel |-> par, t13 |-> t13,
         cr12 |-> cr12, sr12 |-> sr12,
         sx1 |-> sin(y1), sx2 |-> sin(y2), cx1 |-> cos(y1), cx2 |-> cos(y2)]

\* the point of the general branch of intersection
intersectionPoint(l, t) ==
    LET sx3 == Mul(t.sx1, t.sx2)
        x3 == acos1(Mul(t.cr12, sx3) - Mul(t.cx2, t.cx1))
        r13 == atan2(Mul(t.sr12, sx3), t.cx2 + Mul(t.cx1, cos(x3)))
    IN  _destination2(l.a1, l.b1, r13, t.t13)

\* (a slip: an override of 0 taken for no override)
intersectionHeightTruthy(start1, start2, height) ==
    IF height = None \/ height[1] = 0 THEN _havg(start1, start2) ELSE height[1]

\* the height of the result of intersection: the override, or the average
intersectionHeight(start1, start2, height) ==
    IF height = None THEN _havg(start1, start2) ELSE height[1]

\* the point intersection returns: a LatLon, or a 3-tuple if LatLon is None
intersectionResult(ab, h, cls) ==
    Return([lat |-> ab[1], lon |-> ab[2], height |-> h, tuple |-> (cls = None)])
\* intersection(start1, bearing1, start2, bearing2, height, wrap, LatLon):
\* the outcome, and the checks that were evaluated on the way, from the
\* locals l and t of its two branches and the height h
intersectionOf(l, t, h, cls) ==
    IF coincident(l.r12)
    THEN [out |-> intersectionResult(coincidentPoint(l), h, cls), checks |-> <<>>]
    ELSE IF t.parallel
    THEN [out |-> Raise("ValueError", "intersection parallel"),
          checks |-> <<"parallel">>]
    ELSE IF turnCheck(t.sx1, t.sx2) = "infinite"
    THEN [out |-> Raise("ValueError", "intersection infinite"),
          checks |-> <<"parallel", "infinite">>]
    ELSE IF turnCheck(t.sx1, t.sx2) = "ambiguous"
    THEN [out |-> Raise("ValueError", "intersection ambiguous"),
          checks |-> <<"parallel", "infinite", "ambiguous">>]
    ELSE [out |-> intersectionResult(intersectionPoint(l, t), h, cls),
          checks |-> <<"parallel", "infinite", "ambiguous">>]
\* ... from the locals l of the head and the two bearings
intersectionFrom(l, bearing1, bearing2, h, cls) ==
    intersectionOf(l, intersectionTurns(l, bearing1, bearing2), h, cls)
intersection(start1, bearing1, start2, bearing2, height, wrap, cls) ==
    intersectionFrom(intersectionHead(start1, start2, wrap), bearing1, bearing2,
                     intersectionHeight(start1, start2, height), cls)

IntersectionArgs ==
    [start1 : Points90, bearing1 : Bearings90, start2 : Points90,
     bearing2 : Bearings90, height : {None, <<0>>, <<3>>},
     wrap : BOOLEAN, LatLon : {None, <<"LatLon">>}]

InitIntersection ==
    /\ pc = "call"
    /\ op = "intersection"
    /\ args \in IntersectionArgs
    /\ out = NoOut
    /\ aux = <<>>

CallIntersection ==
    /\ pc = "call"
    /\ op = "intersection"
    /\ LET r == intersection(args.start1, args.bearing1, args.start2,
                             args.bearing2, args.height, args.wrap, args.LatLon)
       IN  /\ out' = r.out
           /\ aux' = r.checks
    /\ pc' = "done"
    /\ UNCHANGED <<op, args>>

NextIntersection == CallIntersection

SpecIntersection == InitIntersection /\ [][NextIntersection]_vars

----------------------------------------------------------------------------
(* Vectors, points2 and isenclosedBy *)

\* LatLonHeightBase.to3xyz: the n-vector (x, y, z) of a point
to3xyz(p) ==
    LET a == to2ab(p)[1]
        b == to2ab(p)[2]
    IN  <<Mul(cos(a), cos(b)), Mul(cos(a), sin(b)), sin(a)>>
\* a Vector3d object: its components and, to tell one object from another of
\* the same components, the number of the call that made it
Vector3d(xyz, id) == [xyz |-> xyz, id |-> id]
\* (a slip: the vector is made and not kept)
storedNowhere(p, xyz, id) == p
\* the point p after self._v3d = Vector3d(x, y, z), made by the call id
stored(p, xyz, id) == [p EXCEPT !._v3d = Vector3d(xyz, id)]
\* the point p with its cache holding the vector of p made by the call id
withVector(p, id) == stored(p, to3xyz(p), id)
\* (a slip: the cache is written only when it is already filled)
toVector3dStoresFilled(p) == p._v3d # None
\* the test of the cache in toVector3d
toVector3dStores(p) == p._v3d = None
\* LatLon.toVector3d: the point after the call, its cache filled if it was
\* empty, by a vector made by the call numbered id
cached(p, id) == IF toVector3dStores(p) THEN withVector(p, id) ELSE p
\* ... and the components of the vector it returns
toVector3d(p) == IF p._v3d = None THEN to3xyz(p) ELSE p._v3d.xyz
\* Vector3d.cross, Vector3d.dot
cross(u, v) == <<Mul(u[2], v[3]) - Mul(u[3], v[2]),
                 Mul(u[3], v[1]) - Mul(u[1], v[3]),
                 Mul(u[1], v[2]) - Mul(u[2], v[1])>>
dot(u, v) == Mul(u[1], v[1]) + Mul(u[2], v[2]) + Mul(u[3], v[3])
\* u.angleTo(v) > PI_2: the angle between two vectors exceeds 90 degrees
angleToGtPI_2(u, v) == dot(u, v) < 0
\* u.angleTo(v, vSign=s) < 0: the angle from u to v, signed by s, is negative
angleToLt0(u, v, s) == dot(cross(u, v), s) < 0

\* points[i] of the code, a 0-based index
At(points, i) == points[i + 1]

\* points2(points, closed): the number of points to use, the closing
\* point dropped from a closed polygon that repeats its first point
RECURSIVE dropClosing(_, _)
dropClosing(points, n) ==
    IF n > 1 /\ At(points, n - 1) = At(points, 0)
    THEN dropClosing(points, n - 1) ELSE n
points2n(points, closed) ==
    IF closed THEN dropClosing(points, Len(points)) ELSE Len(points)
\* ... and whether points2 raises ValueError: too few points
points2few(points, closed) == points2n(points, closed) < (IF closed THEN 3 ELSE 1)

NonConvex == Raise("ValueError", "non-convex")
TooFew == Raise("ValueError", "too few points")

\* the loop of the iterNumpy2 branch of isenclosedBy, from index i on
RECURSIVE enclosedLoop(_, _, _, _, _, _, _)
enclosedLoop(points, n, n0, t0, i, v1, gc1) ==
    IF i >= n THEN Return(TRUE)
    ELSE LET v2 == toVector3d(At(points, i))
             gc == cross(v1, v2)
             ti == angleToGtPI_2(gc, n0)
         IN  IF ti # t0 THEN Return(FALSE)
             ELSE IF angleToLt0(gc1, gc, n0) THEN NonConvex
             ELSE enclosedLoop(points, n, n0, t0, i + 1, v2, gc)

\* the number of rounds of that loop that are entered
RECURSIVE enclosedRounds(_, _, _, _, _, _, _)
enclosedRounds(points, n, n0, t0, i, v1, gc1) ==
    IF i >= n THEN n
    ELSE LET v2 == toVector3d(At(points, i))
             gc == cross(v1, v2)
         IN  IF angleToGtPI_2(gc, n0) # t0 \/ angleToLt0(gc1, gc, n0) THEN i + 1
             ELSE enclosedRounds(points, n, n0, t0, i + 1, v2, gc)

\* the iterNumpy2 branch of isenclosedBy
enclosedNumpy(points, n, n0) ==
    LET v1 == toVector3d(At(points, n - 1))
        v2 == toVector3d(At(points, n - 2))
        gc1 == cross(v2, v1)
        t0 == angleToGtPI_2(gc1, n0)
    IN  enclosedLoop(points, n, n0, t0, 0, v1, gc1)

\* the great-circle vectors of the edges: gc[i] for the edge points[i-1] -> points[i]
edgesGC(points, n) ==
    [k \in 1 .. n |-> cross(toVector3d(At(points, (k + n - 2) % n)),
                            toVector3d(At(points, k - 1)))]

\* (a slip: the side loop starts at edge 2)
sidesDifferFrom2(gc, n, n0) ==
    \E i \in 2 .. n - 1 : angleToGtPI_2(At(gc, i), n0) # angleToGtPI_2(At(gc, 0), n0)

\* the side loop of the list branch: some edge i in 1 .. n-1 has this point
\* on another side than edge 0
sidesDiffer(gc, n, n0) ==
    \E i \in 1 .. n - 1 : angleToGtPI_2(At(gc, i), n0) # angleToGtPI_2(At(gc, 0), n0)

\* (a slip: the convexity loop starts with gc1 = gc[0] and so skips the
\* pair gc[n-1], gc[0])
notConvexOpen(gc, n, n0) ==
    \E i \in 1 .. n - 1 : angleToLt0(At(gc, i - 1), At(gc, i), n0)

\* the convexity loop of the list branch: some pair gc1, gc2 of consecutive
\* edges, starting with gc[n-1], gc[0], has a negative signed angle
notConvex(gc, n, n0) ==
    \E i \in 0 .. n - 1 : angleToLt0(At(gc, (i + n - 1) % n), At(gc, i), n0)

\* the list branch of isenclosedBy
enclosedList(points, n, n0) ==
    LET gc == edgesGC(points, n)
    IN  IF sidesDiffer(gc, n, n0) THEN Return(FALSE)
        ELSE IF notConvex(gc, n, n0) THEN NonConvex
        ELSE Return(TRUE)

\* self.isenclosedBy(points); numpy: whether iterNumpy2(points) holds
isenclosedBy(self, points, numpy) ==
    IF points2few(points, TRUE) THEN TooFew
    ELSE LET n == points2n(points, TRUE)
             n0 == toVector3d(self)
         IN  IF numpy THEN enclosedNumpy(points, n, n0)
             ELSE enclosedList(points, n, n0)

\* (a slip: no point's toVector3d is called)
enclosedTouchedNone(self, points, numpy) == {}

\* the indices of the points whose toVector3d isenclosedBy calls: all of
\* them in the list branch; in the iterNumpy2 branch the last two and those
\* of the rounds entered
enclosedTouched(self, points, numpy) ==
    LET n == points2n(points, TRUE)
        n0 == toVector3d(self)
        v1 == toVector3d(At(points, n - 1))
        gc1 == cross(toVector3d(At(points, n - 2)), v1)
    IN  IF ~numpy THEN 0 .. n - 1
        ELSE {n - 1, n - 2} \cup
             (0 .. enclosedRounds(points, n, n0, angleToGtPI_2(gc1, n0), 0, v1, gc1) - 1)

\* self and the points after self.isenclosedBy(points): nothing is touched
\* if points2 raises, else self.toVector3d() and points[i].toVector3d() of
\* the points reached have filled the caches that were empty
isenclosedByAfter(self, points, numpy) ==
    IF points2few(points, TRUE) THEN [self |-> self, points |-> points]
    ELSE [self |-> cached(self, 1),
          points |-> [k \in DOMAIN points |->
                         IF k - 1 \in enclosedTouched(self, points, numpy)
                         THEN cached(points[k], 1) ELSE points[k]]]

\* the number of caches a call has filled: before and after are records of
\* self and points
filled(before, after) ==
    Cardinality({k \in DOMAIN before.points : after.points[k] # before.points[k]})
    + (IF after.self # before.self THEN 1 ELSE 0)

\* points whose coordinates are multiples of 45 degrees, around (22.5, 45)
Points45 == {LatLon(a, b, 0) : a \in {0, 45}, b \in {0, 45, 90}}
Polygons == UNION {[1 .. n -> Points45] : n \in 2 .. MaxN}

InitEnclosed ==
    /\ pc = "call"
    /\ op = "isenclosedBy"
    /\ args \in [self : Points45, points : Polygons, numpy : BOOLEAN]
    /\ out = NoOut
    /\ aux = <<>>

CallEnclosed ==
    /\ pc = "call"
    /\ op = "isenclosedBy"
    /\ out' = isenclosedBy(args.self, args.points, args.numpy)
    /\ LET after == isenclosedByAfter(args.self, args.points, args.numpy)
       IN  /\ args' = [args EXCEPT !.self = after.self, !.points = after.points]
           /\ aux' = [filled |-> filled(args, after)]
    /\ pc' = "done"
    /\ UNCHANGED op

NextEnclosed == CallEnclosed

SpecEnclosed == InitEnclosed /\ [][NextEnclosed]_vars

----------------------------------------------------------------------------
(* areaOf and isPoleEnclosedBy *)

\* fmath.fsum: the exact sum of a sequence of numbers
RECURSIVE fsum(_)
fsum(xs) == IF xs = <<>> THEN 0 ELSE Head(xs) + fsum(Tail(xs))

\* utily.wrap180: wrap degrees into (-180, 180]
wrap180(d) == _wrap(d, 180, 360)

\* the turns in longitude along the edges of a closed polygon from index i
\* on, p1 the previous point
RECURSIVE lonTurns(_, _, _, _)
lonTurns(points, n, i, p1) ==
    IF i >= n THEN <<>>
    ELSE <<wrap180(At(points, i).lon - p1.lon)>>
         \o lonTurns(points, n, i + 1, At(points, i))
\* points.ispolar(points, wrap): whether a pole lies inside the polygon, its
\* edges winding once around the axis; the flag only unrolls longitude
\* differences and leaves that unchanged.  For a polygon with a pole on its
\* boundary the predicate is not defined
ispolar(points, wrap) ==
    LET n == points2n(points, TRUE)
    IN  Abs(fsum(lonTurns(points, n, 0, At(points, n - 1)))) = 360

\* the default of the keyword wrap of isPoleEnclosedBy
isPoleEnclosedByWrap == FALSE
\* isPoleEnclosedBy(points, wrap): DEPRECATED, ispolar
isPoleEnclosedBy(points, wrap) == ispolar(points, wrap)

\* the wrap flag areaOf hands to isPoleEnclosedBy: none, so its default
areaOfPoleWrap(wrap) == isPoleEnclosedByWrap

\* the spherical excesses of the edges of areaOf from index i on: ta1 the
\* half-latitude tangent and b1 the (unrolled) longitude of the previous point
RECURSIVE excesses(_, _, _, _, _, _)
excesses(points, n, wrap, i, ta1, b1) ==
    IF i >= n THEN <<>>
    ELSE LET a2 == to2ab(At(points, i))[1]
             u == unrollPI(b1, to2ab(At(points, i))[2], wrap)
             ta2 == tan_2(a2)
             tdb == tan_2(u[1])
         IN  <<atan2(Mul(tdb, ta1 + ta2), One + Mul(ta1, ta2))>>
             \o excesses(points, n, wrap, i + 1, ta2, u[2])

\* (a slip: the sum is returned with its sign)
areaFinalSigned(s, radius) == s * radius * radius

\* the last line of areaOf
areaFinal(s, radius) == Abs(s * radius * radius)

\* areaOf(points, radius, wrap): the outcome, and the wrap flags used for
\* the edges and handed to the pole-enclosure predicate
areaOf(points, radius, wrap) ==
    IF points2few(points, TRUE)
    THEN [out |-> TooFew, flags |-> <<>>]
    ELSE LET n == points2n(points, TRUE)
             a1 == to2ab(At(points, n - 1))[1]
             b1 == to2ab(At(points, n - 1))[2]
             s == fsum(excesses(points, n, wrap, 0, tan_2(a1), b1)) * 2
             pw == areaOfPoleWrap(wrap)
             s2 == IF isPoleEnclosedBy(SubSeq(points, 1, n), pw) THEN Abs(s) - PI2 ELSE s
         IN  [out |-> Return(areaFinal(s2, radius)),
              flags |-> [edges |-> wrap, pole |-> pw, polar |-> s2 # s, raw |-> s]]

\* the vertices of polygons for areaOf and perimeterOf
PointsArea == {LatLon(a, b, 0) : a \in {0, 45}, b \in {-180, -90, 0, 90, 180}}
\* whether the edge from p to q runs through a pole or joins antipodes
throughPole(p, q) == (q.lon - p.lon) % 360 = 180
\* polygons of distinct vertices with no pole on their boundary, given open
\* or closed by a copy of the first vertex
Rings == {p \in UNION {[1 .. n -> PointsArea] : n \in 2 .. MaxN} :
              /\ \A i, j \in DOMAIN p : i # j => p[i] # p[j]
              /\ \A i \in DOMAIN p : ~throughPole(p[i], p[(i % Len(p)) + 1])}
PolygonsArea == Rings \cup {Append(p, p[1]) : p \in Rings}

InitArea ==
    /\ pc = "call"
    /\ op = "areaOf"
    /\ args \in [points : PolygonsArea, radius : Radii, wrap : BOOLEAN]
    /\ out = NoOut
    /\ aux = <<>>

CallArea ==
    /\ pc = "call"
    /\ op = "areaOf"
    /\ LET r == areaOf(args.points, args.radius, args.wrap)
       IN  out' = r.out /\ aux' = r.flags
    /\ pc' = "done"
    /\ UNCHANGED <<op, args>>

NextArea == CallArea

SpecArea == InitArea /\ [][NextArea]_vars

----------------------------------------------------------------------------
(* Distances, bearings and the operations taking a radius *)

\* float(x) / float(y), y other than 0: the quotient of two plain numbers
fquot(x, y) == Sgn(x) * Sgn(y) * ((2 * Abs(x) + Abs(y)) \div (2 * Abs(y)))
ZeroDivision == Raise("ZeroDivisionError", "float division by zero")
RadiusInvalid == Raise("ValueError", "radius invalid")

\* LatLon.distanceTo(other, radius, wrap): an angle times the radius
distanceTo(self, other, radius, wrap) ==
    LET db == unrollPI(to2ab(self)[2], to2ab(other)[2], wrap)[1]
    IN  haversine_(to2ab(other)[1], to2ab(self)[1], db) * radius

\* LatLon.initialBearingTo(other, wrap), raiser=False: compass degrees
initialBearingTo(self, other, wrap) ==
    degrees(bearing_(to2ab(self)[1], to2ab(self)[2],
                     to2ab(other)[1], to2ab(other)[2], wrap))

\* LatLon.destination(distance, bearing, radius, height)
destination(self, distance, bearing, radius, height) ==
    IF radius = 0 THEN ZeroDivision
    ELSE LET ab == _destination2(to2ab(self)[1], to2ab(self)[2],
                                 fquot(distance, radius), radians(bearing))
         IN  Return(LatLon(ab[1], ab[2],
                           IF height = None THEN self.height ELSE height[1]))

\* (a slip: a radius equal to EPS is refused as well)
radiusBelowOrAtEPS(r) == r <= EPS
\* the test of the radius in _trackDistanceTo3
radiusBelowEPS(r) == r < EPS

\* (a slip: the two bearings the wrong way round)
trackXSwapped(r, b, e) == asin(Mul(sin(r), sin(e - b)))
\* the cross-track angle of _trackDistanceTo3
trackX(r, b, e) == asin(Mul(sin(r), sin(b - e)))

\* LatLon._trackDistanceTo3(start, end, radius, wrap): the angular distance
\* r from the start, the cross-track angle x and the bearing difference e - b
_trackDistanceTo3(self, start, end, radius, wrap) ==
    IF radiusBelowEPS(radius) THEN [out |-> RadiusInvalid, r |-> 0, x |-> 0, b |-> 0]
    ELSE LET r == fquot(distanceTo(start, self, radius, wrap), radius)
             b == radians(initialBearingTo(start, self, wrap))
             e == radians(initialBearingTo(start, end, wrap))
         IN  [out |-> NoOut, r |-> r, x |-> trackX(r, b, e), b |-> e - b]

\* (a slip: the division is made whatever cos(x))
cxAny(cx) == TRUE
\* the test of cos(x) in alongTrackDistanceTo
cxAboveEPS(cx) == Abs(cx) > EPS

\* what alongTrackDistanceTo makes of the 3-tuple t of _trackDistanceTo3
\* and of cx = cos(x): the outcome and whether cos(r) was divided by cos(x)
alongTrackOf(t, cx, radius) ==
    IF t.out # NoOut THEN [out |-> t.out, divided |-> FALSE]
    ELSE IF cxAboveEPS(cx)
    THEN [out |-> IF cx = 0 THEN ZeroDivision
                  ELSE Return(copysign(acos1(Div(cos(t.r), cx)), cos(t.b)) * radius),
          divided |-> TRUE]
    ELSE [out |-> Return(0), divided |-> FALSE]
\* ... with cos(x) taken from the 3-tuple
alongTrackOfT(t, radius) == alongTrackOf(t, cos(t.x), radius)
\* LatLon.alongTrackDistanceTo(start, end, radius, wrap)
alongTrackDistanceTo(self, start, end, radius, wrap) ==
    alongTrackOfT(_trackDistanceTo3(self, start, end, radius, wrap), radius)

\* what crossTrackDistanceTo makes of the 3-tuple t of _trackDistanceTo3
crossTrackOf(t, radius) == IF t.out # NoOut THEN t.out ELSE Return(t.x * radius)
\* LatLon.crossTrackDistanceTo(start, end, radius, wrap)
crossTrackDistanceTo(self, start, end, radius, wrap) ==
    crossTrackOf(_trackDistanceTo3(self, start, end, radius, wrap), radius)

\* (a slip: the closed flag ignored, the walk always started as if open)
_imdex2Open(closed, n) == <<0, 1>>
\* points._imdex2(closed, n): the index of the first point and of the
\* first end of an edge
_imdex2(closed, n) == IF closed THEN <<n - 1, 0>> ELSE <<0, 1>>

\* the angular edge lengths of perimeterOf from index i on, (a1, b1) the
\* previous point with its longitude unrolled
RECURSIVE _rads(_, _, _, _, _, _)
_rads(points, n, wrap, i, a1, b1) ==
    IF i >= n THEN <<>>
    ELSE LET a2 == to2ab(At(points, i))[1]
             u == unrollPI(b1, to2ab(At(points, i))[2], wrap)
         IN  <<haversine_(a2, a1, u[1])>> \o _rads(points, n, wrap, i + 1, a2, u[2])

\* perimeterOf(points, closed, radius, wrap)
perimeterOf(points, closed, radius, wrap) ==
    IF points2few(points, closed) THEN TooFew
    ELSE LET n == points2n(points, closed)
             im == _imdex2(closed, n)
             p == At(points, im[1])
         IN  Return(fsum(_rads(points, n, wrap, im[2], to2ab(p)[1], to2ab(p)[2]))
                    * radius)

\* math.hypot of two whole numbers, rounded down
hypot(x, y) == CHOOSE h \in 0 .. Abs(x) + Abs(y) :
                   h * h <= x * x + y * y /\ x * x + y * y < (h + 1) * (h + 1)
\* formy.equirectangular_: the offsets in degrees from p1 to p2 and the
\* square of their length (near the equator, where a degree of longitude
\* is as long as a degree of latitude)
equirectangular_(p1, p2) ==
    LET dy == p2.lat - p1.lat
        dx == p2.lon - p1.lon
    IN  [d2 |-> dx * dx + dy * dy, dy |-> dy, dx |-> dx]
\* ... which raises LimitError for an offset beyond the limit
overLimit(p1, p2, limit) ==
    Max2(Abs(p2.lat - p1.lat), Abs(p2.lon - p1.lon)) > limit
\* the default of the option limit of equirectangular_, in degrees
LimitDefault == 45

\* the point of the edge from p1 to p2 closest to point
nearestOnEdge(point, p1, p2) ==
    LET e == equirectangular_(p1, p2)
        q == equirectangular_(p1, point)
        w2 == q.dy * e.dy + q.dx * e.dx
    IN  IF e.d2 = 0 \/ w2 <= 0 THEN LatLon(p1.lat, p1.lon, 0)
        ELSE IF w2 >= e.d2 THEN LatLon(p2.lat, p2.lon, 0)
        ELSE LatLon(p1.lat + fquot(w2 * e.dy, e.d2), p1.lon + fquot(w2 * e.dx, e.d2), 0)
\* the closest point found on the edges from index i on, p1 the previous
\* point and c the closest so far
RECURSIVE nearestLoop(_, _, _, _, _, _)
nearestLoop(point, points, n, i, p1, c) ==
    IF i >= n THEN c
    ELSE LET q == nearestOnEdge(point, p1, At(points, i))
         IN  nearestLoop(point, points, n, i + 1, At(points, i),
                         IF equirectangular_(point, q).d2 < equirectangular_(point, c).d2
                         THEN q ELSE c)
\* points.nearestOn4(point, points, closed, limit): latitude and longitude
\* of the closest point on the path, its distance in degrees and the
\* compass angle to it
nearestOn4(point, points, closed, limit) ==
    IF points2few(points, closed) THEN TooFew
    ELSE LET n == points2n(points, closed)
             im == _imdex2(closed, n)
             p == At(points, im[1])
             c == nearestLoop(point, points, n, im[2], p, LatLon(p.lat, p.lon, 0))
             d == equirectangular_(point, c)
         IN  IF \E i \in 0 .. n - 1 :
                    \/ overLimit(point, At(points, i), limit)
                    \/ overLimit(At(points, i), At(points, (i + 1) % n), limit)
             THEN Raise("LimitError", "delta exceeds limit")
             ELSE Return(<<c.lat, c.lon, hypot(d.dx, d.dy),
                           degrees(atan2(d.dx, d.dy) + PI2) % 360>>)
\* utily.degrees2m(deg, radius): the length of an arc of deg degrees
degrees2m(deg, radius) == radians(deg) * radius

\* the limit among the options, or its default
optionsLimit(options) == IF options = None THEN LimitDefault ELSE options[1]

\* the 3-tuple nearestOn3 makes of the outcome r of nearestOn4: the closest
\* point, the distance in units of the radius and the compass angle
nearestOn3Of(r, radius) ==
    IF r.kind # "return" THEN r
    ELSE Return(<<LatLon(r.val[1], r.val[2], 0), degrees2m(r.val[3], radius), r.val[4]>>)
\* LatLon.nearestOn3(points, closed, radius, **options)
nearestOn3(self, points, closed, radius, options) ==
    nearestOn3Of(nearestOn4(self, points, closed, optionsLimit(options)), radius)
\* (a slip: no slice taken, the 3-tuple of nearestOn3 passed on whole)
nearestOn2OfWhole(r) == r
\* what nearestOn2 takes of the outcome r of nearestOn3: the slice [:2]
nearestOn2Of(r) ==
    IF r.kind # "return" THEN r ELSE Return(SubSeq(r.val, 1, 2))
\* LatLon.nearestOn2(points, closed, radius, **options)
nearestOn2(self, points, closed, radius, options) ==
    nearestOn2Of(nearestOn3(self, points, closed, radius, options))
\* what nearestOn takes of the outcome r of nearestOn3: the item [0]
nearestOnOf(r) ==
    IF r.kind # "return" THEN r ELSE Return(r.val[1])
\* LatLon.nearestOn(point1, point2, radius, **options)
nearestOn(self, point1, point2, radius, options) ==
    nearestOnOf(nearestOn3(self, <<point1, point2>>, FALSE, radius, options))
\* what the function nearestOn2 makes of the outcome r of nearestOn4: a
\* 2-tuple of the closest point, or of its latitude and longitude if LatLon
\* is None, and the distance in units of the radius
nearestOn2FunctionOf(r, radius, cls) ==
    IF r.kind # "return" THEN r
    ELSE Return(<<IF cls = None THEN <<r.val[1], r.val[2]>>
                  ELSE LatLon(r.val[1], r.val[2], 0),
                  degrees2m(r.val[3], radius)>>)
\* the function nearestOn2(point, points, closed, radius, LatLon, **options)
nearestOn2Function(point, points, closed, radius, cls, options) ==
    nearestOn2FunctionOf(nearestOn4(point, points, closed, optionsLimit(options)),
                         radius, cls)

\* a limit of equirectangular_ among the options that some paths exceed
LimitSmall == 1

\* points for the track distances and along the paths of nearestOn
PointsTrack == {LatLon(a, b, 0) : a \in Lats90, b \in Lons90}
PointsNear == {LatLon(a, b, 0) : a \in {0, 2}, b \in {0, 2, 4}}
PathsNear == [1 .. 2 -> PointsNear]
\* polygons along the equator
PolygonsEquator == {p \in PolygonsArea : \A i \in DOMAIN p : p[i].lat = 0}

TrackOps == {"alongTrackDistanceTo", "crossTrackDistanceTo"}
RadiusOps == TrackOps \cup {"destination", "distanceTo", "areaOf", "perimeterOf",
                            "nearestOn", "nearestOn2", "nearestOn3"}

ArgsTrack == [self : PointsTrack, start : PointsTrack, end : PointsTrack,
              radius : Radii, wrap : BOOLEAN]
\* the arguments of an operation that takes a radius
ArgsRadius(o) ==
    CASE o \in TrackOps ->
           {a \in ArgsTrack : a.start = LatLon(0, 0, 0) /\ a.end = LatLon(0, 90, 0)}
      [] o = "destination" ->
           {[self |-> LatLon(0, 0, 0), distance |-> k * r, bearing |-> t,
             radius |-> r, height |-> None] :
                k \in {0, PI_2}, t \in Bearings90, r \in Radii}
      [] o = "distanceTo" ->
           [self : {LatLon(0, 0, 0)}, other : PointsTrack, radius : Radii, wrap : BOOLEAN]
      [] o = "areaOf" ->
           [points : PolygonsEquator, radius : Radii, wrap : BOOLEAN]
      [] o = "perimeterOf" ->
           [points : PolygonsEquator, closed : BOOLEAN, radius : Radii, wrap : BOOLEAN]
      [] o = "nearestOn" ->
           [self : PointsNear, point1 : PointsNear, point2 : PointsNear,
            radius : Radii, options : {None, <<LimitSmall>>}]
      [] o \in {"nearestOn2", "nearestOn3"} ->
           [self : PointsNear, points : PathsNear, closed : BOOLEAN,
            radius : Radii, options : {None, <<LimitSmall>>}]

InitTrack ==
    /\ pc = "call"
    /\ op \in TrackOps
    /\ args \in ArgsTrack
    /\ out = NoOut
    /\ aux = <<>>

InitRadius ==
    /\ pc = "call"
    /\ op \in RadiusOps
    /\ args \in ArgsRadius(op)
    /\ out = NoOut
    /\ aux = <<>>

CallAlongTrack ==
    /\ pc = "call"
    /\ op = "alongTrackDistanceTo"
    /\ pc' = "done"
    /\ UNCHANGED <<op, args>>
    /\ LET r == alongTrackDistanceTo(args.self, args.start, args.end, args.radius, args.wrap)
       IN  out' = r.out /\ aux' = [divided |-> r.divided]

CallCrossTrack ==
    /\ pc = "call"
    /\ op = "crossTrackDistanceTo"
    /\ pc' = "done"
    /\ UNCHANGED <<op, args>>
    /\ out' = crossTrackDistanceTo(args.self, args.start, args.end, args.radius, args.wrap)
    /\ aux' = aux

CallDestination ==
    /\ pc = "call"
    /\ op = "destination"
    /\ pc' = "done"
    /\ UNCHANGED <<op, args>>
    /\ out' = destination(args.self, args.distance, args.bearing, args.radius, args.height)
    /\ aux' = aux

CallDistanceTo ==
    /\ pc = "call"
    /\ op = "distanceTo"
    /\ pc' = "done"
    /\ UNCHANGED <<op, args>>
    /\ out' = Return(distanceTo(args.self, args.other, args.radius, args.wrap))
    /\ aux' = aux

CallPerimeter ==
    /\ pc = "call"
    /\ op = "perimeterOf"
    /\ pc' = "done"
    /\ UNCHANGED <<op, args>>
    /\ out' = perimeterOf(args.points, args.closed, args.radius, args.wrap)
    /\ aux' = aux

CallNearestOn ==
    /\ pc = "call"
    /\ op = "nearestOn"
    /\ pc' = "done"
    /\ UNCHANGED <<op, args>>
    /\ out' = nearestOn(args.self, args.point1, args.point2, args.radius, args.options)
    /\ aux' = aux

CallNearestOn2 ==
    /\ pc = "call"
    /\ op = "nearestOn2"
    /\ pc' = "done"
    /\ UNCHANGED <<op, args>>
    /\ out' = nearestOn2(args.self, args.points, args.closed, args.radius, args.options)
    /\ aux' = aux

CallNearestOn3 ==
    /\ pc = "call"
    /\ op = "nearestOn3"
    /\ pc' = "done"
    /\ UNCHANGED <<op, args>>
    /\ out' = nearestOn3(args.self, args.points, args.closed, args.radius, args.options)
    /\ aux' = aux

NextTrack == CallAlongTrack \/ CallCrossTrack

NextRadius ==
    \/ CallAlongTrack \/ CallCrossTrack \/ CallDestination \/ CallDistanceTo
    \/ CallArea \/ CallPerimeter
    \/ CallNearestOn \/ CallNearestOn2 \/ CallNearestOn3

SpecTrack == InitTrack /\ [][NextTrack]_vars
SpecRadius == InitRadius /\ [][NextRadius]_vars

----------------------------------------------------------------------------
(* The operations that return a point *)

\* fmath.favg with a fraction f given in halves: a1 + f * (a2 - a1)
favgHalves(a1, a2, f2) == a1 + Sgn(a2 - a1) * ((f2 * Abs(a2 - a1)) \div 2)

\* LatLon.midpointTo(other, height, wrap)
midpointTo(self, other, height, wrap) ==
    LET a1 == to2ab(self)[1]   b1 == to2ab(self)[2]
        a2 == to2ab(other)[1]
        db == unrollPI(b1, to2ab(other)[2], wrap)[1]
        x == Mul(cos(a2), cos(db)) + cos(a1)
        y == Mul(cos(a2), sin(db))
        a == atan2(sin(a1) + sin(a2), hypot(x, y))
        b == atan2(y, x) + b1
    IN  Return(LatLon(degrees90(a), degrees180(b),
                      IF height = None THEN _havg(self, other) ELSE height[1]))

\* the test of sin(r) in intermediateTo
farApart(sr) == Abs(sr) > EPS

\* LatLon.intermediateTo(other, fraction, height, wrap), the fraction given
\* in halves
intermediateTo(self, other, f2, height, wrap) ==
    LET a1 == to2ab(self)[1]   b1 == to2ab(self)[2]
        a2 == to2ab(other)[1]
        u == unrollPI(b1, to2ab(other)[2], wrap)
        b2 == u[2]
        r == haversine_(a2, a1, u[1])
        sr == sin(r)
        A == Div(sin(((2 - f2) * r) \div 2), sr)
        B == Div(sin((f2 * r) \div 2), sr)
        x == Mul(Mul(A, cos(a1)), cos(b1)) + Mul(Mul(B, cos(a2)), cos(b2))
        y == Mul(Mul(A, cos(a1)), sin(b1)) + Mul(Mul(B, cos(a2)), sin(b2))
        z == Mul(A, sin(a1)) + Mul(B, sin(a2))
        a == IF farApart(sr) THEN atan2(z, hypot(x, y)) ELSE favgHalves(a1, a2, f2)
        b == IF farApart(sr) THEN atan2(y, x) ELSE favgHalves(b1, b2, f2)
    IN  Return(LatLon(degrees90(a), degrees180(b),
                      IF height = None
                      THEN favgHalves(self.height, other.height, f2)
                      ELSE height[1]))

PointOps == {"destination", "intersection", "intermediateTo", "midpointTo"}

\* the arguments of an operation that returns a point
ArgsPoint(o) ==
    CASE o = "destination" ->
           {[self |-> p, distance |-> k * PI_2, bearing |-> t,
             radius |-> 1, height |-> None] :
                p \in PointsTrack, k \in -1 .. 3, t \in Bearings90 \cup {-90, 360}}
      [] o = "intersection" ->
           {a \in IntersectionArgs :
                a.start1.height = 0 /\ a.start2.height = 0 /\ a.height = None}
      [] o = "intermediateTo" ->
           [self : PointsTrack, other : PointsTrack, fraction : 0 .. 2,
            height : {None}, wrap : BOOLEAN]
      [] o = "midpointTo" ->
           [self : PointsTrack, other : PointsTrack, height : {None}, wrap : BOOLEAN]

InitPoint ==
    /\ pc = "call"
    /\ op \in PointOps
    /\ args \in ArgsPoint(op)
    /\ out = NoOut
    /\ aux = <<>>

CallMidpoint ==
    /\ pc = "call"
    /\ op = "midpointTo"
    /\ pc' = "done"
    /\ UNCHANGED <<op, args>>
    /\ out' = midpointTo(args.self, args.other, args.height, args.wrap)
    /\ aux' = aux

CallIntermediate ==
    /\ pc = "call"
    /\ op = "intermediateTo"
    /\ pc' = "done"
    /\ UNCHANGED <<op, args>>
    /\ out' = intermediateTo(args.self, args.other, args.fraction, args.height, args.wrap)
    /\ aux' = aux

NextPoint == CallDestination \/ CallIntersection \/ CallIntermediate \/ CallMidpoint

SpecPoint == InitPoint /\ [][NextPoint]_vars

----------------------------------------------------------------------------
(* initialBearingTo with its raiser, and bearingTo *)

CrossError == Raise("CrossError", "coincident points")

\* the coincidence test of initialBearingTo, on latitudes and longitudes in radians
coincidentPoints(a1, b1, a2, b2) == Max2(Abs(a2 - a1), Abs(b2 - b1)) < EPS

\* (a slip: the global switch is not consulted)
crossRaiserOnly(raiser, crosserrors) == raiser
\* whether initialBearingTo is to raise CrossError for coincident points:
\* the caller's raiser and the global switch vector3d.crosserrors()
crossRaiser(raiser, crosserrors) == raiser /\ crosserrors

\* LatLon.initialBearingTo(other, wrap, raiser) under the global switch
\* crosserrors: the outcome
initialBearingToRaiser(self, other, wrap, raiser, crosserrors) ==
    IF /\ crossRaiser(raiser, crosserrors)
       /\ coincidentPoints(to2ab(self)[1], to2ab(self)[2],
                           to2ab(other)[1], to2ab(other)[2])
    THEN CrossError
    ELSE Return(initialBearingTo(self, other, wrap))

\* LatLon.bearingTo(other, wrap, raiser): DEPRECATED, initialBearingTo
bearingTo(self, other, wrap, raiser, crosserrors) ==
    initialBearingToRaiser(self, other, wrap, raiser, crosserrors)

BearingOps == {"initialBearingTo", "bearingTo"}

InitBearing ==
    /\ pc = "call"
    /\ op \in BearingOps
    /\ args \in [self : PointsTrack, other : PointsTrack, wrap : BOOLEAN,
                 raiser : BOOLEAN, crosserrors : BOOLEAN]
    /\ out = NoOut
    /\ aux = <<>>

CallInitialBearingTo ==
    /\ pc = "call"
    /\ op = "initialBearingTo"
    /\ pc' = "done"
    /\ UNCHANGED <<op, args>>
    /\ out' = initialBearingToRaiser(args.self, args.other, args.wrap,
                                     args.raiser, args.crosserrors)
    /\ aux' = aux

CallBearingTo ==
    /\ pc = "call"
    /\ op = "bearingTo"
    /\ pc' = "done"
    /\ UNCHANGED <<op, args>>
    /\ out' = bearingTo(args.self, args.other, args.wrap, args.raiser, args.crosserrors)
    /\ aux' = aux

NextBearing == CallInitialBearingTo \/ CallBearingTo

SpecBearing == InitBearing /\ [][NextBearing]_vars

----------------------------------------------------------------------------
(* meanOf, and the core operations with the objects they are handed *)

\* vector3d.sumOf: the sum of vectors, by components
sumOf(vs) == [c \in 1 .. 3 |-> fsum([k \in DOMAIN vs |-> vs[k][c]])]
\* Vector3d.to2ll: the latitude and longitude, in degrees, of a vector
to2ll(v) == <<degrees90(atan2(v[3], hypot(v[1], v[2]))), degrees180(atan2(v[2], v[1]))>>
\* fmath.fmean: the mean of a non-empty sequence of numbers
fmean(xs) == fquot(fsum(xs), Len(xs))

\* meanOf(points, height, LatLon)
meanOf(points, height, cls) ==
    IF points2few(points, FALSE) THEN TooFew
    ELSE LET ab == to2ll(sumOf([k \in DOMAIN points |-> toVector3d(points[k])]))
             h == IF height = None
                  THEN fmean([k \in DOMAIN points |-> points[k].height])
                  ELSE height[1]
         IN  Return([lat |-> ab[1], lon |-> ab[2], height |-> h, tuple |-> (cls = None)])
\* the points after meanOf(points): every points[i].toVector3d() has filled
\* the cache that was empty
meanOfAfter(points) ==
    IF points2few(points, FALSE) THEN points
    ELSE [k \in DOMAIN points |-> cached(points[k], 1)]

CoreOps == {"intersection", "areaOf", "perimeterOf", "meanOf", "isenclosedBy",
            "nearestOn", "nearestOn2", "nearestOn3", "alongTrackDistanceTo",
            "crossTrackDistanceTo", "destination", "distanceTo"}

\* four places around (22.5, 45) and, at each, a point whose cache is empty
\* and one whose cache an earlier call has filled
PlacesFrame == {LatLon(0, 0, 0), LatLon(45, 0, 0), LatLon(45, 90, 0), LatLon(45, 45, 0)}
ObjectsFrame == PlacesFrame \cup {withVector(p, 0) : p \in PlacesFrame}
\* sequences of such points: none cached, all cached, or the first one only
PolygonsFrame ==
    LET places == UNION {[1 .. n -> PlacesFrame] : n \in 2 .. MaxFrameN}
    IN  places \cup {[k \in DOMAIN p |-> withVector(p[k], 0)] : p \in places}
               \cup {[p EXCEPT ![1] = withVector(p[1], 0)] : p \in places}

\* the arguments of a core operation
ArgsFrame(o) ==
    CASE o = "intersection" ->
           {a \in IntersectionArgs : a.start1.height = 0 /\ a.start2.height = 0
                                     /\ a.start1.lat = 0 /\ a.height = None}
      [] o = "isenclosedBy" ->
           [self : ObjectsFrame, points : PolygonsFrame, numpy : BOOLEAN]
      [] o = "meanOf" ->
           [points : PolygonsFrame \cup {<<>>}, height : {None, <<0>>},
            LatLon : {None, <<"LatLon">>}]
      [] OTHER -> ArgsRadius(o)

InitFrame ==
    /\ pc = "call"
    /\ op \in CoreOps
    /\ args \in ArgsFrame(op)
    /\ out = NoOut
    /\ aux = <<>>

CallMeanOf ==
    /\ pc = "call"
    /\ op = "meanOf"
    /\ out' = meanOf(args.points, args.height, args.LatLon)
    /\ LET after == meanOfAfter(args.points)
       IN  /\ args' = [args EXCEPT !.points = after]
           /\ aux' = [filled |-> Cardinality({k \in DOMAIN after : after[k] # args.points[k]})]
    /\ pc' = "done"
    /\ UNCHANGED op

NextFrame ==
    \/ CallIntersection \/ CallArea \/ CallPerimeter \/ CallMeanOf \/ CallEnclosed
    \/ CallNearestOn \/ CallNearestOn2 \/ CallNearestOn3
    \/ CallAlongTrack \/ CallCrossTrack \/ CallDestination \/ CallDistanceTo

SpecFrame == InitFrame /\ [][NextFrame]_vars

----------------------------------------------------------------------------
(* Concurrent calls of toVector3d on one point *)

Threads == 1 .. MaxThreads

\* MaxThreads threads are each about to call toVector3d on the same point,
\* whose cache is empty
InitRace ==
    /\ pc = [t \in Threads |-> "test"]
    /\ op = "toVector3d"
    /\ args \in [self : PointsTrack]
    /\ out = [t \in Threads |-> NoOut]
    /\ aux = [t \in Threads |-> None]

\* if self._v3d is None:
RaceTest(t) ==
    /\ pc[t] = "test"
    /\ pc' = [pc EXCEPT ![t] = IF toVector3dStores(args.self) THEN "to3xyz" ELSE "return"]
    /\ UNCHANGED <<op, args, out, aux>>

\* x, y, z = self.to3xyz()
RaceTo3xyz(t) ==
    /\ pc[t] = "to3xyz"
    /\ aux' = [aux EXCEPT ![t] = to3xyz(args.self)]
    /\ pc' = [pc EXCEPT ![t] = "store"]
    /\ UNCHANGED <<op, args, out>>

\* self._v3d = Vector3d(x, y, z)
RaceStore(t) ==
    /\ pc[t] = "store"
    /\ args' = [args EXCEPT !.self = stored(args.self, aux[t], t)]
    /\ pc' = [pc EXCEPT ![t] = "return"]
    /\ UNCHANGED <<op, out, aux>>

\* return self._v3d
RaceReturn(t) ==
    /\ pc[t] = "return"
    /\ out' = [out EXCEPT ![t] = Return(args.self._v3d)]
    /\ pc' = [pc EXCEPT ![t] = "done"]
    /\ UNCHANGED <<op, args, aux>>

NextRace ==
    \E t \in Threads : RaceTest(t) \/ RaceTo3xyz(t) \/ RaceStore(t) \/ RaceReturn(t)

SpecRace == InitRace /\ [][NextRace]_vars

----------------------------------------------------------------------------
(* Sequences of toVector3d, _update and assignments to one point *)

\* (a slip: the caches are never reset)
_updateNever(updated) == FALSE
\* the test of _update
_updateResets(updated) == updated
\* LatLon._update(updated): the point after the call, its cache reset if
\* updated (the base class's _update resets caches of its own)
_update(p, updated) == IF _updateResets(updated) THEN [p EXCEPT !._v3d = None] ELSE p

\* one point, just constructed; aux keeps the number of vectors made for it,
\* the vector toVector3d returned last, whether the cache was reset since,
\* and whether the last toVector3d found the cache filled
InitCache ==
    /\ pc = "idle"
    /\ op = "LatLon"
    /\ args \in [self : PointsTrack, updated : {FALSE}]
    /\ out = NoOut
    /\ aux = [made |-> 0, last |-> None, reset |-> FALSE, fetched |-> FALSE]

\* self.toVector3d(), at most MaxMade vectors being made
CallToVector3d ==
    /\ pc = "idle"
    /\ toVector3dStores(args.self) => aux.made < MaxMade
    /\ LET after == cached(args.self, aux.made + 1)
       IN  /\ args' = [args EXCEPT !.self = after]
           /\ out' = Return(after._v3d)
           /\ aux' = [made |-> IF after = args.self THEN aux.made ELSE aux.made + 1,
                      last |-> after._v3d, reset |-> FALSE,
                      fetched |-> (after = args.self)]
    /\ op' = "toVector3d"
    /\ UNCHANGED pc

\* self._update(updated)
CallUpdate ==
    /\ pc = "idle"
    /\ \E updated \in BOOLEAN :
          /\ args' = [self |-> _update(args.self, updated), updated |-> updated]
          /\ aux' = [aux EXCEPT !.reset = aux.reset \/ args'.self # args.self]
    /\ op' = "_update"
    /\ out' = NoOut
    /\ UNCHANGED pc

\* self.lat = lat: the setter of the base class calls self._update(lat !=
\* self._lat) and assigns the latitude
CallSetLat ==
    /\ pc = "idle"
    /\ \E lat \in Lats90 :
          /\ args' = [self |-> [_update(args.self, lat # args.self.lat) EXCEPT !.lat = lat],
                      updated |-> (lat # args.self.lat)]
          /\ aux' = [aux EXCEPT !.reset = aux.reset \/ args'.self._v3d # args.self._v3d]
    /\ op' = "lat"
    /\ out' = NoOut
    /\ UNCHANGED pc

NextCache == CallToVector3d \/ CallUpdate \/ CallSetLat

SpecCache == InitCache /\ [][NextCache]_vars

----------------------------------------------------------------------------
(* perimeterOf over open and closed paths *)

\* the points of paths for perimeterOf: some a quarter turn apart, some more
\* than a half turn apart in longitude
PointsPerimeter == {LatLon(a, b, 0) : a \in {0, 45}, b \in {-180, 0, 90}}
PathsPerimeter == UNION {[1 .. n -> PointsPerimeter] : n \in 1 .. MaxN}

InitPerimeter ==
    /\ pc = "call"
    /\ op = "perimeterOf"
    /\ args \in [points : PathsPerimeter, closed : BOOLEAN, radius : Radii,
                 wrap : BOOLEAN]
    /\ out = NoOut
    /\ aux = <<>>

NextPerimeter == CallPerimeter

SpecPerimeter == InitPerimeter /\ [][NextPerimeter]_vars

----------------------------------------------------------------------------
(* The three methods nearestOn, nearestOn2, nearestOn3 and the function nearestOn2 *)

NearestOps == {"nearestOn", "nearestOn2", "nearestOn3", "nearestOn2Function"}

InitNearest ==
    /\ pc = "call"
    /\ op \in NearestOps
    /\ args \in IF op = "nearestOn2Function"
                THEN [point : PointsNear, points : PathsNear, closed : BOOLEAN,
                      radius : Radii, LatLon : {None, <<"LatLon">>},
                      options : {None, <<LimitSmall>>}]
                ELSE ArgsRadius(op)
    /\ out = NoOut
    /\ aux = <<>>

CallNearestOn2Function ==
    /\ pc = "call"
    /\ op = "nearestOn2Function"
    /\ pc' = "done"
    /\ UNCHANGED <<op, args>>
    /\ out' = nearestOn2Function(args.point, args.points, args.closed, args.radius,
                                 args.LatLon, args.options)
    /\ aux' = aux

NextNearest ==
    CallNearestOn \/ CallNearestOn2 \/ CallNearestOn3 \/ CallNearestOn2Function

SpecNearest == InitNearest /\ [][NextNearest]_vars

----------------------------------------------------------------------------
(* The script test/run.py: running test modules and totalling failures *)

\* what Popen.returncode can be once the child has ended: its exit status,
\* or -N if signal N ended it
ReturnCodes == (0 .. MaxStatus) \cup {-n : n \in 1 .. MaxSignal}
\* the console output r of a test module, as far as _run reads it: whether
\* it has 'Traceback' in it and how many lines of it start a test
Outputs == [traceback : BOOLEAN, tests : 0 .. 1]
\* runner(test): the return code of the child and its console output
runner(returncode, r) == [x |-> returncode, r |-> r]

\* the test of _run that adds a failure: 'Traceback' in r and not x
tracebackCounts(x, r) == r.traceback /\ x = 0
\* the totals _T and _X after _run has run a module with outcome rn
_runTotals(t, rn) ==
    [_T |-> t._T + rn.r.tests,
     _X |-> t._X + rn.x + (IF tracebackCounts(rn.x, rn.r) THEN 1 ELSE 0)]
\* whether _run raises SystemExit: a Traceback with the option -raiser
_runRaises(raiser, rn) == rn.r.traceback /\ raiser

\* the summary of the last line the script prints
summary(t) ==
    IF t._X # 0 THEN <<"FAILED", t._X>>
    ELSE IF t._T > 0 THEN <<"all tests OK", t._T>>
    ELSE <<"all OK">>

InitRunner ==
    /\ pc = "loop"
    /\ op = "run"
    /\ args \in [tests : 0 .. MaxModules, _raiser : BOOLEAN]
    /\ out = NoOut
    /\ aux = [_T |-> 0, _X |-> 0, ran |-> <<>>]

\* one round of the loop over the test modules: _run(arg)
Run ==
    /\ pc = "loop"
    /\ Len(aux.ran) < args.tests
    /\ \E returncode \in ReturnCodes, r \in Outputs :
          LET rn == runner(returncode, r)
              t == _runTotals(aux, rn)
          IN  /\ aux' = [_T |-> t._T, _X |-> t._X, ran |-> Append(aux.ran, rn)]
              /\ pc' = IF _runRaises(args._raiser, rn) THEN "summary" ELSE "loop"
    /\ UNCHANGED <<op, args, out>>

\* the loop has run every module
RunEnd ==
    /\ pc = "loop"
    /\ Len(aux.ran) = args.tests
    /\ pc' = "summary"
    /\ UNCHANGED <<op, args, out, aux>>

\* a KeyboardInterrupt while the loop runs: exit with status 9, no summary
Interrupt ==
    /\ pc = "loop"
    /\ Len(aux.ran) < args.tests
    /\ pc' = "done"
    /\ out' = Raise("SystemExit", "9")
    /\ UNCHANGED <<op, args, aux>>

\* the summary line
Summary ==
    /\ pc = "summary"
    /\ pc' = "done"
    /\ out' = Return(summary(aux))
    /\ UNCHANGED <<op, args, aux>>

NextRunner == Run \/ RunEnd \/ Interrupt \/ Summary

SpecRunner == InitRunner /\ [][NextRunner]_vars

----------------------------------------------------------------------------
(* Properties of intersection *)

IntersectionDone == pc = "done" /\ op = "intersection"
\* the angular separation r12 of the two starts, as intersection computes it
R12 == intersectionHead(args.start1, args.start2, args.wrap).r12
\* the two turn-angle sines
Turns == intersectionTurns(intersectionHead(args.start1, args.start2, args.wrap),
                           args.bearing1, args.bearing2)
\* the two triangle-side sines sin(r12) * cos(lat1), sin(r12) * cos(lat2)
Side1 == Mul(sin(R12), cos(radians(args.start1.lat)))
Side2 == Mul(sin(R12), cos(radians(args.start2.lat)))
IsParallel == Abs(Side1) < EPS \/ Abs(Side2) < EPS
IsInfinite == Turns.sx1 = 0 /\ Turns.sx2 = 0
IsAmbiguous == Mul(Turns.sx1, Turns.sx2) < 0
IsPoint(v) == v # None /\ DOMAIN v = {"lat", "lon", "height", "tuple"}

\* C1: for two starts at least EPS apart, intersection ends in exactly one
\* of four outcomes, decided in this order: Parallel if a triangle-side
\* sine is below EPS, else Infinite if both turn-angle sines are zero, else
\* Ambiguous if their product is negative, else one point; a failure
\* carries no point, and the three failures differ in what is raised.
C1_IntersectionOutcomes ==
    (IntersectionDone /\ R12 >= EPS) =>
        /\ IsParallel => out = Raise("ValueError", "intersection parallel")
        /\ (~IsParallel /\ IsInfinite) =>
              out = Raise("ValueError", "intersection infinite")
        /\ (~IsParallel /\ ~IsInfinite /\ IsAmbiguous) =>
              out = Raise("ValueError", "intersection ambiguous")
        /\ (~IsParallel /\ ~IsInfinite /\ ~IsAmbiguous) =>
              (out.kind = "return" /\ IsPoint(out.val))
        /\ out.kind # "return" => out.val = None
        /\ out.kind \in {"return", "ValueError"}
        /\ \E n \in 1 .. 3 : aux = SubSeq(<<"parallel", "infinite", "ambiguous">>, 1, n)

\* C1 witness: two starts 90 degrees apart whose rays diverge: the third
\* check is reached and fails
C1_Witness ==
    /\ IntersectionDone /\ R12 >= EPS
    /\ ~IsParallel /\ ~IsInfinite /\ IsAmbiguous
    /\ out.msg = "intersection ambiguous"

\* whether the starts are coincident for intersection
IsCoincident == R12 < EPS
\* the second start's longitude as intersection unrolls it, in degrees
Lon2Unrolled ==
    LET d == args.start2.lon - args.start1.lon
    IN  IF args.wrap /\ Abs(d) > 180
        THEN args.start1.lon + (IF d > 180 THEN d - 360 ELSE d + 360)
        ELSE args.start2.lon

Swapped == intersection(args.start2, args.bearing2, args.start1, args.bearing1,
                        args.height, args.wrap, args.LatLon).out

\* C11 as claimed: intersection(start1, bearing1, start2, bearing2) and
\* intersection(start2, bearing2, start1, bearing1) either both return the
\* same latitude, longitude and height or both fail with the same failure.
C11_SwapSymmetric ==
    IntersectionDone =>
        /\ out.kind = Swapped.kind
        /\ out.msg = Swapped.msg
        /\ out.kind = "return" =>
              /\ out.val.lat = Swapped.val.lat
              /\ out.val.lon = Swapped.val.lon
              /\ out.val.height = Swapped.val.height

\* the height the caller asked for: the override, or the average of the two
\* starts' heights
HeightAsked ==
    IF args.height = None
    THEN (args.start1.height + args.start2.height) \div 2
    ELSE args.height[1]

\* C12: whenever intersection returns a result, in the coincident branch as
\* in the general branch, as a point or as a 3-tuple, its height is the
\* override if one was given, an override of 0 included, and otherwise the
\* average of the two starts' heights.
C12_HeightOverrideOrAverage ==
    (IntersectionDone /\ out.kind = "return") => out.val.height = HeightAsked

\* C12 witness: an override of 0 for two starts of other heights, returned
\* in a 3-tuple from the coincident branch
C12_Witness ==
    /\ IntersectionDone /\ out.kind = "return"
    /\ IsCoincident /\ out.val.tuple
    /\ args.height = <<0>>
    /\ args.start1.height > 0 /\ args.start2.height > 0
    /\ out.val.height = 0

\* C13 as claimed: every latitude returned by destination, intersection,
\* intermediateTo and midpointTo lies in [-90, 90] degrees and every
\* longitude in (-180, 180] degrees.
C13_Normalized ==
    (pc = "done" /\ op \in PointOps /\ out.kind = "return") =>
        /\ -90 <= out.val.lat /\ out.val.lat <= 90
        /\ -180 < out.val.lon /\ out.val.lon <= 180

----------------------------------------------------------------------------
(* Properties of isenclosedBy *)

EnclosedDone == pc = "done" /\ op = "isenclosedBy"
\* the polygon as isenclosedBy uses it: the closing point dropped
PolyN == points2n(args.points, TRUE)
PolyV(i) == to3xyz(args.points[((i - 1) % PolyN) + 1])
\* the normal of edge i (1 .. PolyN), from vertex i to vertex i + 1, the
\* last edge closing the polygon
EdgeNormal(i) == cross(PolyV(i), PolyV(i + 1))
\* whether this point is on the positive side of edge i
Side(i) == dot(EdgeNormal(i), to3xyz(args.self)) < 0
SameSideOfAll == \A i, j \in 1 .. PolyN : Side(i) = Side(j)
\* whether the signed angle between edges i and i + 1 is negative
NegativeAt(i) ==
    dot(cross(EdgeNormal(i), EdgeNormal(i + 1)), to3xyz(args.self)) < 0
SomeNegative == \E i \in 1 .. PolyN : NegativeAt(i)

\* C3 as claimed: for a polygon of at least 3 points, if some edge's side
\* classification differs from the first edge's, isenclosedBy returns False
\* and does not fail with NonConvex, in both branches.
C3_DifferingSideIsFalse ==
    (EnclosedDone /\ PolyN >= 3 /\ ~SameSideOfAll) => out = Return(FALSE)

\* C4: isenclosedBy returns True only if this point is on the same side of
\* all n edges and none of the n cyclically consecutive pairs of edge normals
\* has a negative signed angle; with the point on the same side of all edges
\* and some signed angle negative it fails with NonConvex.
C4_TrueOnlyIfConvex ==
    EnclosedDone =>
        /\ out = Return(TRUE) => (PolyN >= 3 /\ SameSideOfAll /\ ~SomeNegative)
        /\ (PolyN >= 3 /\ SameSideOfAll /\ SomeNegative) => out = NonConvex

\* C4 witness: a polygon with this point on the same side of all edges and a
\* negative signed angle only between the last edge and the closing edge
C4_Witness ==
    /\ EnclosedDone /\ PolyN >= 3 /\ SameSideOfAll
    /\ NegativeAt(PolyN - 1)
    /\ \A i \in 1 .. PolyN : i # PolyN - 1 => ~NegativeAt(i)
    /\ out = NonConvex

\* C5 as claimed: the two branches of isenclosedBy produce the same outcome
\* for the same vertices and the same point.
C5_BranchesAgree ==
    EnclosedDone => out = isenclosedBy(args.self, args.points, ~args.numpy)

----------------------------------------------------------------------------
(* Properties of areaOf *)

AreaDone == pc = "done" /\ op = "areaOf"
RECURSIVE Reverse(_)
Reverse(xs) == IF xs = <<>> THEN <<>> ELSE Reverse(Tail(xs)) \o <<Head(xs)>>

\* C6 as claimed: areaOf evaluates the pole-enclosure predicate with the
\* wrap flag it uses for unrolling the longitude difference of each edge.
C6_SameWrap ==
    (AreaDone /\ out.kind = "return") => aux.pole = aux.edges

----------------------------------------------------------------------------
(* Properties of the track distances and of the radius *)

TrackDone == pc = "done" /\ op \in TrackOps
\* the angular distance start - query and the bearings start -> query and
\* start -> end of a finished track distance
TrackR == haversine_(to2ab(args.self)[1], to2ab(args.start)[1],
                     unrollPI(to2ab(args.start)[2], to2ab(args.self)[2], args.wrap)[1])
TrackB == radians(initialBearingTo(args.start, args.self, args.wrap))
TrackE == radians(initialBearingTo(args.start, args.end, args.wrap))
TrackCX == cos(asin(Mul(sin(TrackR), sin(TrackB - TrackE))))
\* the side of the path start -> end the query point lies on: positive to
\* the left, negative to the right, 0 on the great circle of the path
TrackSide == dot(cross(toVector3d(args.start), toVector3d(args.end)),
                 toVector3d(args.self))
PathDefined == cross(toVector3d(args.start), toVector3d(args.end)) # <<0, 0, 0>>

\* the outcome is the ValueError raised for the radius
RadiusRefused == out.kind = "ValueError" /\ out.msg = RadiusInvalid.msg

\* C8 as claimed: every operation that takes a radius fails with a
\* ValueError for the radius, returning no value, when radius <= EPS.
C8_RadiusAtMostEPSFails ==
    (pc = "done" /\ op \in RadiusOps /\ args.radius <= EPS) => out.kind = "ValueError"

\* C8 amended: only alongTrackDistanceTo and crossTrackDistanceTo check the
\* radius, failing with ValueError exactly when radius < EPS, so that a
\* radius equal to EPS is accepted; destination fails with
\* ZeroDivisionError for radius 0 and returns a point otherwise; distanceTo,
\* areaOf, perimeterOf, nearestOn, nearestOn2 and nearestOn3 never fail on
\* account of the radius.
C8_OnlyTrackChecksRadius ==
    (pc = "done" /\ op \in RadiusOps) =>
        /\ op \in TrackOps => (RadiusRefused <=> args.radius < EPS)
        /\ op \in TrackOps /\ args.radius >= EPS => out.kind = "return"
        /\ op = "destination" =>
               out.kind = IF args.radius = 0 THEN ZeroDivision.kind ELSE "return"
        /\ op = "distanceTo" => out.kind = "return"
        /\ op \notin TrackOps => ~RadiusRefused
        /\ op \in {"areaOf", "perimeterOf"} =>
               out.kind = "return" \/ (out.kind = TooFew.kind /\ out.msg = TooFew.msg)
        /\ op \in {"nearestOn", "nearestOn2", "nearestOn3"} =>
               out.kind \in {"return", "ValueError", "LimitError"}

\* C8 witness: a track distance computed with a radius equal to EPS
C8_Witness ==
    /\ TrackDone /\ args.radius = EPS
    /\ out.kind = "return" /\ out.val # 0

\* C9: alongTrackDistanceTo divides cos(r) by cos(x) only when
\* |cos(x)| > EPS; when |cos(x)| <= EPS it returns 0 without dividing;
\* otherwise it returns acos of the quotient clamped to [-1, 1], times the
\* radius, with the sign of cos(b - e).
C9_DividesOnlyAboveEPS ==
    (pc = "done" /\ op = "alongTrackDistanceTo" /\ args.radius >= EPS) =>
        IF Abs(TrackCX) > EPS
        THEN /\ aux.divided /\ out.kind = "return"
             /\ out.val = copysign(acos1(Div(cos(TrackR), TrackCX)),
                                    cos(TrackB - TrackE)) * args.radius
        ELSE ~aux.divided /\ out.kind = "return" /\ out.val = 0

\* C9 witness: the query point is a quarter circle abeam of the start, so
\* that cos(x) = 0, and 0 is returned
C9_Witness ==
    /\ pc = "done" /\ op = "alongTrackDistanceTo" /\ args.radius >= EPS
    /\ TrackCX = 0 /\ TrackR # 0 /\ PathDefined
    /\ ~aux.divided /\ out.kind = "return" /\ out.val = 0

\* C10: with a valid radius crossTrackDistanceTo has the sign of
\* sin(r) * sin(b - e); it is negative when the query point lies to the left
\* of the path start -> end, positive when it lies to the right, and 0 on
\* the great circle of the path.
C10_CrossTrackSign ==
    (pc = "done" /\ op = "crossTrackDistanceTo" /\ args.radius >= EPS) =>
        /\ out.kind = "return"
        /\ Sgn(out.val) = Sgn(Mul(sin(TrackR), sin(TrackB - TrackE)))
        /\ PathDefined => Sgn(out.val) = -Sgn(TrackSide)

\* C10 witness: a query point to the left of the path and a negative result
C10_Witness ==
    /\ pc = "done" /\ op = "crossTrackDistanceTo" /\ args.radius >= EPS
    /\ PathDefined /\ TrackSide > 0
    /\ out.kind = "return" /\ out.val < 0

----------------------------------------------------------------------------
(* Properties of initialBearingTo *)

BearingDone == pc = "done" /\ op \in BearingOps
\* the two points are the same place: no angular distance between them
SamePlace == haversine_(to2ab(args.other)[1], to2ab(args.self)[1],
                        to2ab(args.other)[2] - to2ab(args.self)[2]) = 0
SameCoordinates == args.self.lat = args.other.lat /\ args.self.lon = args.other.lon

\* C14: initialBearingTo and bearingTo between coincident points fail with
\* CrossError only if raiser is set and the switch crosserrors is on (and
\* then do fail for points of the same coordinates); in every other
\* combination they return a bearing in [0, 360).
C14_CrossErrorOnlyIfBoth ==
    (BearingDone /\ SamePlace) =>
        /\ out.kind = "CrossError" => (args.raiser /\ args.crosserrors)
        /\ (args.raiser /\ args.crosserrors /\ SameCoordinates) => out.kind = "CrossError"
        /\ ~(args.raiser /\ args.crosserrors) =>
              (out.kind = "return" /\ out.val \in 0 .. 359)

\* C14 witness: bearingTo between two points of the same coordinates, with
\* raiser set and the switch off, returns the bearing 0
C14_Witness ==
    /\ BearingDone /\ op = "bearingTo" /\ SameCoordinates
    /\ args.raiser /\ ~args.crosserrors
    /\ out.kind = "return" /\ out.val = 0

----------------------------------------------------------------------------
(* Properties of the objects handed to the core operations *)

\* a core operation is called and returns or raises
FrameStep == pc = "call" /\ pc' = "done" /\ op \in CoreOps
\* the arguments that are points
PointFields == {"self", "start", "end", "other", "start1", "start2", "point1", "point2"}
\* q is the point p with the same coordinates and the same cache
SameCoordinatesAs(p, q) == p.lat = q.lat /\ p.lon = q.lon /\ p.height = q.height
\* the cache of q is that of p, or p's was empty and q's holds the vector of p
CacheKeptOrFilled(p, q) ==
    \/ q._v3d = p._v3d
    \/ p._v3d = None /\ q._v3d # None /\ q._v3d.xyz = to3xyz(p)

\* C15: no core operation changes the latitude, longitude or height of a
\* point handed to it, nor the order or membership of the points sequence,
\* nor any other argument; the cache of a point changes, if at all, from
\* empty to the vector of that point.
C15_OnlyCachesFill ==
    [][FrameStep =>
          /\ DOMAIN args' = DOMAIN args
          /\ \A f \in DOMAIN args :
                IF f = "points"
                THEN /\ Len(args'.points) = Len(args.points)
                     /\ \A k \in DOMAIN args.points :
                           /\ SameCoordinatesAs(args.points[k], args'.points[k])
                           /\ CacheKeptOrFilled(args.points[k], args'.points[k])
                ELSE IF f \in PointFields
                THEN /\ SameCoordinatesAs(args[f], args'[f])
                     /\ CacheKeptOrFilled(args[f], args'[f])
                ELSE args'[f] = args[f]]_vars

\* C15 witness: isenclosedBy has returned after filling some caches and
\* leaving others, filled before or not reached, as they were
C15_Witness ==
    /\ pc = "done" /\ op = "isenclosedBy" /\ out.kind = "return"
    /\ aux.filled > 0 /\ aux.filled < Len(args.points) + 1
    /\ \E k \in DOMAIN args.points : args.points[k]._v3d = None

\* C16 as claimed: when a core operation fails, every point involved,
\* its cache included, is as it was before the call.
C16_FailureLeavesAll ==
    [][(FrameStep /\ out'.kind # "return") => args' = args]_vars

\* C16 amended: when a core operation fails, the coordinates of every point
\* and the points sequence are as before the call, and so are the caches
\* unless it is isenclosedBy that fails with NonConvex: by then it has
\* filled the cache of self and of the points it reached (all of them in the
\* list branch), each with the vector of its point, and left the filled
\* caches alone.
C16_FailureFillsCachesOnly ==
    [][(FrameStep /\ out'.kind # "return") =>
          IF op = "isenclosedBy" /\ out'.msg = NonConvex.msg
          THEN /\ SameCoordinatesAs(args.self, args'.self)
               /\ CacheKeptOrFilled(args.self, args'.self)
               /\ args'.self._v3d # None
               /\ Len(args'.points) = Len(args.points)
               /\ \A k \in DOMAIN args.points :
                     /\ SameCoordinatesAs(args.points[k], args'.points[k])
                     /\ CacheKeptOrFilled(args.points[k], args'.points[k])
                     /\ (~args.numpy /\ k <= points2n(args.points, TRUE))
                            => args'.points[k]._v3d # None
               /\ args'.numpy = args.numpy
          ELSE args' = args]_vars

\* C16 witness: isenclosedBy has failed with NonConvex after filling caches
C16_Witness ==
    /\ pc = "done" /\ op = "isenclosedBy"
    /\ out = NonConvex /\ aux.filled > 0

----------------------------------------------------------------------------
(* Properties of concurrent toVector3d calls *)

RaceAllDone == op = "toVector3d" /\ \A t \in Threads : pc[t] = "done"
\* v is a vector object holding the vector of the point
IsVectorOfSelf(v) == v # None /\ v.xyz = to3xyz(args.self)

\* C17: in every interleaving of concurrent first toVector3d calls on one
\* point, each call that has returned has returned a vector, not None,
\* equal to the vector of the point's coordinates; the cache is empty or
\* holds such a vector, made by one of the calls, at every moment, and
\* holds one once all calls have returned.
C17_RaceReturnsTheVector ==
    op = "toVector3d" =>
        /\ \A t \in Threads :
              pc[t] = "done" => (out[t].kind = "return" /\ IsVectorOfSelf(out[t].val))
        /\ args.self._v3d # None =>
              (IsVectorOfSelf(args.self._v3d) /\ args.self._v3d.id \in Threads)
        /\ RaceAllDone => IsVectorOfSelf(args.self._v3d)

\* C17 witness: all calls have returned, each after computing the vector
\* anew, and two of them have returned different objects
C17_Witness ==
    /\ RaceAllDone
    /\ \A t \in Threads : aux[t] # None
    /\ \E t, u \in Threads : out[t].val.id # out[u].val.id

----------------------------------------------------------------------------
(* Properties of the cache of one point *)

CacheStep == pc = "idle" /\ pc' = "idle"

\* C18: after every toVector3d, _update or assignment of the latitude, the
\* cache is empty or holds the vector of the point's current coordinates;
\* _update(True) empties the cache and _update(False) leaves it as it is;
\* toVector3d makes and stores a vector only when the cache is empty, and
\* returns the object it returned last if the cache was not reset since.
C18_CacheEmptyOrCurrent ==
    [][CacheStep =>
          /\ args'.self._v3d = None \/ args'.self._v3d.xyz = to3xyz(args'.self)
          /\ (op' = "_update" /\ args'.updated) => args'.self._v3d = None
          /\ (op' = "_update" /\ ~args'.updated) => args'.self = args.self
          /\ op' = "toVector3d" =>
                /\ out'.kind = "return" /\ out'.val = args'.self._v3d
                /\ out'.val # None
                /\ aux'.made # aux.made => args.self._v3d = None
                /\ args.self._v3d # None => args'.self = args.self
                /\ (aux.last # None /\ ~aux.reset) => out'.val = aux.last]_vars

\* C18 witness: after a vector was made, the cache reset and a second
\* vector made, toVector3d finds the cache filled and returns that second
\* object again
C18_Witness ==
    /\ pc = "idle" /\ op = "toVector3d"
    /\ aux.fetched /\ aux.made = 2
    /\ out.val.id = 2 /\ out.val.xyz = to3xyz(args.self)

----------------------------------------------------------------------------
(* Properties of nearestOn, nearestOn2 and nearestOn3 *)

NearestDone == pc = "done" /\ op \in NearestOps
\* the query point, the points and the closed flag of the call
NearestPoint == IF op = "nearestOn2Function" THEN args.point ELSE args.self
NearestPoints == IF op = "nearestOn" THEN <<args.point1, args.point2>> ELSE args.points
NearestClosed == IF op = "nearestOn" THEN FALSE ELSE args.closed
\* the outcome of nearestOn3 for the same query point, points, closed flag,
\* radius and options
Nearest3 == nearestOn3(NearestPoint, NearestPoints, NearestClosed, args.radius, args.options)
\* the approximator raises LimitError for some delta of the call
LimitExceeded ==
    nearestOn4(NearestPoint, NearestPoints, NearestClosed,
               optionsLimit(args.options)).kind = "LimitError"

\* C19: the method nearestOn2 returns the first two components of the
\* 3-tuple of nearestOn3 for the same arguments, nearestOn the first
\* component of nearestOn3([point1, point2], closed=False), and the function
\* nearestOn2 the same closest place and distance; when the approximator
\* raises LimitError, all four raise LimitError and return nothing.
C19_NearestOnAgree ==
    NearestDone =>
        /\ out.kind = Nearest3.kind /\ out.msg = Nearest3.msg
        /\ LimitExceeded => (out.kind = "LimitError" /\ out.val = None)
        /\ out.kind = "return" =>
              /\ op = "nearestOn3" => Len(out.val) = 3
              /\ op = "nearestOn2" =>
                    out.val = <<Nearest3.val[1], Nearest3.val[2]>>
              /\ op = "nearestOn" => out.val = Nearest3.val[1]
              /\ op = "nearestOn2Function" =>
                    /\ Len(out.val) = 2
                    /\ out.val[2] = Nearest3.val[2]
                    /\ IF args.LatLon = None
                       THEN out.val[1] = <<Nearest3.val[1].lat, Nearest3.val[1].lon>>
                       ELSE out.val[1] = Nearest3.val[1]

\* C19 witness: the method nearestOn2 returns a closest point that is
\* neither end of the path, at a distance above 0
C19_Witness ==
    /\ NearestDone /\ op = "nearestOn2" /\ out.kind = "return"
    /\ out.val[2] > 0
    /\ \A k \in DOMAIN args.points :
          ~SameCoordinatesAs(out.val[1], args.points[k])

----------------------------------------------------------------------------
(* Properties of perimeterOf *)

PerimeterDone == pc = "done" /\ op = "perimeterOf"
\* the last point of the path differs from the first
LastDiffers == At(args.points, Len(args.points) - 1) # At(args.points, 0)
\* the angular length of the edge from the i-th to the j-th point
edgeOf(points, i, j) ==
    haversine_(to2ab(At(points, j))[1], to2ab(At(points, i))[1],
               to2ab(At(points, j))[2] - to2ab(At(points, i))[2])
\* the sum of the first k edges point[i] -> point[i+1]
RECURSIVE edgesOf(_, _)
edgesOf(points, k) ==
    IF k <= 0 THEN 0 ELSE edgesOf(points, k - 1) + edgeOf(points, k - 1, k)
\* the closing edge point[n-1] -> point[0]
closingEdge(points) == edgeOf(points, Len(points) - 1, 0)
\* the open perimeter of the same points
OpenPerimeter == perimeterOf(args.points, FALSE, args.radius, args.wrap)

----------------------------------------------------------------------------
(* Properties of the test script *)

\* some module that was run ended with a return code other than 0 or printed
\* a Traceback
SomeFailed ==
    \E k \in DOMAIN aux.ran : aux.ran[k].x # 0 \/ aux.ran[k].r.traceback
SummaryPrinted == pc = "done" /\ out.kind = "return"

\* C21: after any sequence of test modules the failure total _X is positive,
\* and the summary line says FAILED, whenever some module ended with a
\* return code other than 0 or printed a Traceback; running a further
\* module never lowers the failure total
C21_FailuresCounted ==
    /\ [](op = "run" =>
            /\ SomeFailed => aux._X > 0
            /\ (SomeFailed /\ SummaryPrinted) => out.val[1] = "FAILED")
    /\ [][op = "run" => aux'._X >= aux._X]_vars

====
